---- MODULE Spec2Model ----
(***************************************************************************)
(* Model of the deterministic timeline (class Timeline, src/src/main.js)   *)
(* and of the impact overlay's per-frame update (updateSceneEntities,      *)
(* src/src/impactOverlay/scene/createScene.js).                            *)
(*                                                                         *)
(* Time is counted in integer ticks.  One fixed timestep is TicksPerStep   *)
(* ticks and one loop of the timeline is StepsPerLoop fixed steps, so that *)
(* all float quantities of the source (timeSeconds, accumulator,           *)
(* lastRealTime) are exact multiples of one tick.  The normalised time T   *)
(* is carried as its numerator over totalDuration: the field T holds       *)
(* T * totalDuration, and a comparison T < n/d is done as                  *)
(* T * d < n * totalDuration.                                              *)
(***************************************************************************)
EXTENDS Integers, FiniteSets, Sequences, TLC

\* ---------------------------------------------------------------- bounds
TicksPerStep == 2      \* resolution of the wall clock: ticks per fixed step
StepsPerLoop == 20     \* fixed steps per loop (1320 in the source, scaled)
Slack        == 4      \* ticks by which the wall clock may pass one loop
FineNow      == 3      \* timestamps 0..FineNow are all available
Stride       == 14     \* above FineNow, timestamps are multiples of Stride
CatchUpCap   == 5      \* iterations of one update() that are counted exactly
MaxDebt      == 4      \* the accumulator is explored down to -MaxDebt ticks

\* ------------------------------------------------------------- constants
fixedTimeStep == TicksPerStep
totalDuration == StepsPerLoop * TicksPerStep
DEFAULT_SEED  == 12345
OtherSeed     == 99999

MaxNow == totalDuration + Slack
Times  == {t \in 0..MaxNow : t <= FineNow \/ t % Stride = 0}
Seeds  == {DEFAULT_SEED, OtherSeed}

Min(a, b) == IF a <= b THEN a ELSE b

\* T < num/den, for T held as a numerator over totalDuration
TBelow(T, num, den) == T * den < num * totalDuration

\* --------------------------------------------------------- class Timeline
VARIABLES
  timeline,       \* the Timeline instance (main.js: let timeline)
  lastOp,         \* the last call made on the timeline: [name, now, from]
  startedAt,      \* restart time of an undisturbed run, or NoStart
  iterations,     \* while-loop iterations of the last update(), capped
  everStarted,    \* restart() or resume() has been called at least once
  pausedAt,       \* the timeline as it was when pause() froze it, or None
  overlayInit,    \* initBabylonOverlay(): "pending", "resolved", "rejected"
  babylonOverlay, \* main.js: let babylonOverlay ("null" or "overlay")
  timelineState,  \* window.__timelineState
  metadata,       \* scene.metadata of the overlay scene
  frame,          \* what updateSceneEntities did in the step just taken
  crossing,       \* frames and trigger calls of the current threshold crossing
  page,           \* main.js: currentSeed and the seeds the generated content
                 \* was built from (starfield, environment, overlay scene)
  cameraShake,    \* per page load: the shake controller and its camera
  particleSystems, \* fire, smoke and spark emitters of the overlay
  particleT,      \* the T of the last updateParticleSystems call, or NoT
  driver,         \* a TimelineDriver instance (impactOverlay timeline.js)
  twin,           \* a second, independent Timeline instance given the same
                  \* calls
  replay,         \* restart(t0) and its frames, recorded and replayed: stamps
                  \* and T values
  rng,            \* a SeededRNG instance: [seed, state]
  rngLog,         \* values drawn since the generator was last (re)seeded, and
                  \* the last call
  lastClick,      \* what the last click on Play / Restart selected: none,
                  \* play, pause
  material,       \* the asteroid material: emissiveColor, numerators over
                  \* HeatDen
  heatT,           \* the T of the last updateHeating call, or NoT
  frameClock,   \* time of the last animation frame, or of createScene if later
  shockwave,   \* the shockwave controller's state and its ring mesh
  shockLog,   \* update time since the last fresh trigger, finished runs
  asteroid,   \* the Asteroid instance: quality, LOD meshes, active mesh
  asteroidT,   \* t of the timeline in the last Asteroid.update(), or NoT
  debrisSystem,   \* particles of the debris system, each with its instance matrix
  debrisUpdated   \* updateDebrisSystem() has been called

NoStart == -1
None == [none |-> TRUE]
Undefined == [undefined |-> TRUE]

TimelineNew(seed) ==
  [seed |-> seed, isPlaying |-> FALSE, timeSeconds |-> 0, accumulator |-> 0,
   lastRealTime |-> 0, T |-> 0, phaseName |-> "Idle"]

updatePhaseLateImpact(tl) ==
  [tl EXCEPT !.phaseName =
     IF ~tl.isPlaying THEN "Idle"
     ELSE IF TBelow(tl.T, 3, 10) THEN "Far Approach"
     ELSE IF TBelow(tl.T, 6, 10) THEN "Mid Approach"
     ELSE IF TBelow(tl.T, 95, 100) THEN "Near Rush"
     ELSE IF TBelow(tl.T, 97, 100) THEN "Impact"
     ELSE "Aftermath"]

updatePhase(tl) ==
  [tl EXCEPT !.phaseName =
     IF ~tl.isPlaying THEN "Idle"
     ELSE IF TBelow(tl.T, 3, 10) THEN "Far Approach"
     ELSE IF TBelow(tl.T, 6, 10) THEN "Mid Approach"
     ELSE IF TBelow(tl.T, 85, 100) THEN "Near Rush"
     ELSE IF TBelow(tl.T, 87, 100) THEN "Impact"
     ELSE "Aftermath"]

restartKeepsElapsed(tl, now) ==
  updatePhase([tl EXCEPT !.isPlaying = TRUE, !.accumulator = 0,
                         !.lastRealTime = now])

restartStaleT(tl, now) ==
  updatePhase([tl EXCEPT !.isPlaying = TRUE, !.timeSeconds = 0,
                         !.accumulator = 0, !.lastRealTime = now])

restartNoAccReset(tl, now) ==
  updatePhase([tl EXCEPT !.isPlaying = TRUE, !.timeSeconds = 0,
                         !.lastRealTime = now, !.T = 0])

restart(tl, now) ==
  updatePhase([tl EXCEPT !.isPlaying = TRUE, !.timeSeconds = 0,
                         !.accumulator = 0, !.lastRealTime = now, !.T = 0])

pauseRewinds(tl) ==
  [tl EXCEPT !.isPlaying = FALSE, !.timeSeconds = 0, !.T = 0]

pause(tl) == [tl EXCEPT !.isPlaying = FALSE]

resumeNoRebase(tl, now) == [tl EXCEPT !.isPlaying = TRUE]

resume(tl, now) == [tl EXCEPT !.isPlaying = TRUE, !.lastRealTime = now]

RECURSIVE FixedStepsWrapLate(_, _, _)
FixedStepsWrapLate(ts, acc, n) ==
  IF acc >= fixedTimeStep
  THEN LET ts1 == ts + fixedTimeStep
           ts2 == IF ts1 > totalDuration THEN ts1 % totalDuration ELSE ts1
       IN  FixedStepsWrapLate(ts2, acc - fixedTimeStep, n + 1)
  ELSE [timeSeconds |-> ts, accumulator |-> acc, n |-> n]

RECURSIVE FixedStepsStopAtWrap(_, _, _)
FixedStepsStopAtWrap(ts, acc, n) ==
  IF acc >= fixedTimeStep
  THEN LET ts1 == ts + fixedTimeStep
       IN  IF ts1 >= totalDuration
           THEN [timeSeconds |-> ts1 % totalDuration,
                 accumulator |-> acc - fixedTimeStep, n |-> n + 1]
           ELSE FixedStepsStopAtWrap(ts1, acc - fixedTimeStep, n + 1)
  ELSE [timeSeconds |-> ts, accumulator |-> acc, n |-> n]

\* the while loop of update(): n counts its iterations
RECURSIVE FixedSteps(_, _, _)
FixedSteps(ts, acc, n) ==
  IF acc >= fixedTimeStep
  THEN LET ts1 == ts + fixedTimeStep
           ts2 == IF ts1 >= totalDuration THEN ts1 % totalDuration ELSE ts1
       IN  FixedSteps(ts2, acc - fixedTimeStep, n + 1)
  ELSE [timeSeconds |-> ts, accumulator |-> acc, n |-> n]

updateSeedSkew(tl, now) ==
  IF ~tl.isPlaying THEN tl
  ELSE LET deltaTime == now - tl.lastRealTime
           skew == IF tl.seed = DEFAULT_SEED THEN 0 ELSE fixedTimeStep
           r == FixedSteps(tl.timeSeconds, tl.accumulator + deltaTime + skew,
                           0)
       IN  updatePhase([tl EXCEPT !.lastRealTime = now,
                                  !.timeSeconds = r.timeSeconds,
                                  !.accumulator = r.accumulator,
                                  !.T = Min(totalDuration, r.timeSeconds)])

updateRebasesWhenIdle(tl, now) ==
  IF ~tl.isPlaying THEN [tl EXCEPT !.lastRealTime = now]
  ELSE LET deltaTime == now - tl.lastRealTime
           r == FixedSteps(tl.timeSeconds, tl.accumulator + deltaTime, 0)
       IN  updatePhase([tl EXCEPT !.lastRealTime = now,
                                  !.timeSeconds = r.timeSeconds,
                                  !.accumulator = r.accumulator,
                                  !.T = Min(totalDuration, r.timeSeconds)])

updateRewinds(tl, now) ==
  IF ~tl.isPlaying THEN tl
  ELSE LET deltaTime == now - tl.lastRealTime
           back == IF deltaTime < 0
                   THEN Min(tl.timeSeconds, fixedTimeStep) ELSE 0
           r == FixedSteps(tl.timeSeconds - back,
                           tl.accumulator + deltaTime, 0)
       IN  updatePhase([tl EXCEPT !.lastRealTime = now,
                                  !.timeSeconds = r.timeSeconds,
                                  !.accumulator = r.accumulator,
                                  !.T = Min(totalDuration, r.timeSeconds)])

updateDropRemainder(tl, now) ==
  IF ~tl.isPlaying THEN tl
  ELSE LET deltaTime == now - tl.lastRealTime
           r == FixedSteps(tl.timeSeconds, tl.accumulator + deltaTime, 0)
       IN  updatePhase([tl EXCEPT !.lastRealTime = now,
                                  !.timeSeconds = r.timeSeconds,
                                  !.accumulator = Min(0, r.accumulator),
                                  !.T = Min(totalDuration, r.timeSeconds)])

update(tl, now) ==
  IF ~tl.isPlaying THEN tl
  ELSE LET deltaTime == now - tl.lastRealTime
           r == FixedSteps(tl.timeSeconds, tl.accumulator + deltaTime, 0)
       IN  updatePhase([tl EXCEPT !.lastRealTime = now,
                                  !.timeSeconds = r.timeSeconds,
                                  !.accumulator = r.accumulator,
                                  !.T = Min(totalDuration, r.timeSeconds)])

\* iterations the while loop of update(tl, now) performs
updateIterations(tl, now) ==
  IF ~tl.isPlaying THEN 0
  ELSE FixedSteps(tl.timeSeconds,
                  tl.accumulator + (now - tl.lastRealTime), 0).n

getState(tl) ==
  [T |-> tl.T, timeSeconds |-> tl.timeSeconds, phaseName |-> tl.phaseName,
   isPlaying |-> tl.isPlaying, seed |-> tl.seed]

setSeed(tl, newSeed) == [tl EXCEPT !.seed = newSeed]


\* ------------------------------------------------- timeline phases table
\* PHASES of the timeline module, bounds as numerator/denominator pairs
T_IMPACT == <<85, 100>>

PHASES == <<
  [key |-> "FAR_APPROACH", start |-> <<0, 100>>,  end |-> <<30, 100>>, name |-> "Far Approach"],
  [key |-> "MID_APPROACH", start |-> <<30, 100>>, end |-> <<60, 100>>, name |-> "Mid Approach"],
  [key |-> "NEAR_RUSH",    start |-> <<60, 100>>, end |-> T_IMPACT,    name |-> "Near Rush"],
  [key |-> "IMPACT",       start |-> T_IMPACT,    end |-> <<T_IMPACT[1] + 2, 100>>, name |-> "Impact"],
  [key |-> "AFTERMATH",    start |-> <<T_IMPACT[1] + 2, 100>>, end |-> <<100, 100>>, name |-> "Aftermath"] >>

RECURSIVE PhaseScanClosedEnd(_, _)
PhaseScanClosedEnd(t, i) ==
  IF i > Len(PHASES) THEN PHASES[Len(PHASES)]
  ELSE IF ~TBelow(t, PHASES[i].start[1], PHASES[i].start[2])
          /\ t * PHASES[i].end[2] <= PHASES[i].end[1] * totalDuration
       THEN PHASES[i]
       ELSE PhaseScanClosedEnd(t, i + 1)

RECURSIVE PhaseScan(_, _)
PhaseScan(t, i) ==
  IF i > Len(PHASES) THEN PHASES[Len(PHASES)]
  ELSE IF ~TBelow(t, PHASES[i].start[1], PHASES[i].start[2])
          /\ TBelow(t, PHASES[i].end[1], PHASES[i].end[2])
       THEN PHASES[i]
       ELSE PhaseScan(t, i + 1)

getCurrentPhase(t) == PhaseScan(t, 1)

\* --------------------------------------------------------- class SeededRNG
\* Mulberry32 on words of WordBits bits instead of 32: every 32-bit
\* operation of the code (>>> 0, Math.imul, ^, |, >>>) is the same operation
\* modulo 2^WordBits. state itself is the JavaScript number the code keeps,
\* which += does not wrap.
WordBits == 8
Modulus == 2 ^ WordBits
\* 0x6d2b79f5, as the words see it
Increment == 1831565813 % Modulus
\* next() is called at most this many times between two (re)seedings
MaxDraws == 4

\* x >>> 0 for an integer x
ToUint32(x) == x % Modulus

RECURSIVE Xor(_, _)
Xor(a, b) ==
  IF a = 0 /\ b = 0 THEN 0
  ELSE (((a % 2) + (b % 2)) % 2) + 2 * Xor(a \div 2, b \div 2)

RECURSIVE Or(_, _)
Or(a, b) ==
  IF a = 0 /\ b = 0 THEN 0
  ELSE (IF a % 2 = 1 \/ b % 2 = 1 THEN 1 ELSE 0) + 2 * Or(a \div 2, b \div 2)

\* t >>> k
Shr(t, k) == t \div (2 ^ k)

imul(a, b) == (ToUint32(a) * ToUint32(b)) % Modulus

SeededRNGNew(seed) == [seed |-> ToUint32(seed), state |-> ToUint32(seed)]

rngResetKeepsState(g) == g

rngReset(g) == [g EXCEPT !.state = g.seed]

rngSetSeed(g, newSeed) ==
  [g EXCEPT !.seed = ToUint32(newSeed), !.state = ToUint32(newSeed)]

\* next(): the generator after the call and the value returned, as the
\* numerator of value / 2^WordBits
next(g) ==
  LET state == g.state + Increment
      t0 == ToUint32(state)
      t1 == imul(Xor(t0, Shr(t0, 15)), Or(t0, 1))
      t2 == Xor(t1, ToUint32(t1 + imul(Xor(t1, Shr(t1, 7)), Or(t1, 61))))
  IN  [rng |-> [g EXCEPT !.state = state],
       value |-> ToUint32(Xor(t2, Shr(t2, 14)))]

\* range(min, max) = min + next() * (max - min), here floored: with integer
\* min, Math.floor(min + x) = min + Math.floor(x)
rangeFloor(g, min, max) ==
  LET n == next(g)
  IN  [rng |-> n.rng, value |-> min + (n.value * (max - min)) \div Modulus,
       draws |-> 1]

rangeIntRounded(g, min, max) ==
  LET n == next(g)
  IN  [rng |-> n.rng,
       value |-> min + (2 * n.value * (max + 1 - min) + Modulus)
                         \div (2 * Modulus),
       draws |-> 1]

rangeInt(g, min, max) == rangeFloor(g, min, max + 1)

\* the values of the first n next() calls on the generator g
RECURSIVE Outputs(_, _)
Outputs(g, n) ==
  IF n = 0 THEN <<>>
  ELSE LET d == next(g) IN <<d.value>> \o Outputs(d.rng, n - 1)

RngLogNew ==
  [drawn |-> <<>>, call |-> "new", min |-> 0, max |-> 0, value |-> 0,
   draws |-> 0]

\* seeds given to the constructor and to setSeed(), and rangeInt() bounds
RngSeeds == {-1, 0, DEFAULT_SEED, Modulus + 3}
RangeBounds == -2 .. 3

\* ---------------------------------------------------- class TimelineDriver
\* The driver's clock is in the same ticks as the Timeline's and its duration
\* is taken equal to totalDuration, so that t is, like T, a numerator over
\* totalDuration.
TIMELINE_DURATION_MS == totalDuration

Null == -1

TimelineDriverNew ==
  [duration |-> TIMELINE_DURATION_MS, playing |-> FALSE, t |-> 0,
   startTime |-> Null, pausedAt |-> 0]

\* the % of JavaScript: the remainder has the sign of the dividend
JsRem(a, d) == IF a >= 0 THEN a % d ELSE -((-a) % d)

driverRestart(d, startTimeMs) ==
  [d EXCEPT !.playing = TRUE, !.startTime = startTimeMs, !.pausedAt = 0,
            !.t = 0]

driverStop(d) ==
  [d EXCEPT !.playing = FALSE, !.pausedAt = d.t]

driverUpdate(d, nowMs) ==
  IF ~d.playing \/ d.startTime = Null THEN d
  ELSE LET elapsed == nowMs - d.startTime
           looped  == JsRem(elapsed, d.duration)
       IN  [d EXCEPT !.t = Min(d.duration, looped)]

\* (t - phase.start) / phaseLength as <<numerator, denominator>>, the
\* denominator positive; Math.min(1, .) is <<1, 1>>
getPhaseProgress(t) ==
  LET phase == getCurrentPhase(t)
      phaseLength == phase.end[1] - phase.start[1]
      num == t * phase.start[2] - phase.start[1] * totalDuration
      den == phaseLength * totalDuration
  IN  IF phaseLength = 0 THEN <<1, 1>>
      ELSE IF num > den THEN <<1, 1>>
      ELSE <<num, den>>

\* ------------------------------------------- overlay: updateSceneEntities
Effects == {"explosion", "shockwave", "cameraShake"}

impactT == <<95, 100>>

MetadataNew == [impactTriggered |-> FALSE, lastUpdateTime |-> 0]

\* scene.metadata as createScene() leaves it at time now
createScene(now) == [MetadataNew EXCEPT !.lastUpdateTime = now]

\* deltaTime of a frame that passed none to the entities
NoDelta == -1

\* the result is the new scene.metadata and the set of effects whose
\* trigger() was called
updateSceneEntitiesNoLatch(md, ts, now) ==
  IF ts = Undefined
  THEN [metadata |-> md, triggered |-> {}, deltaTime |-> NoDelta]
  ELSE
    LET deltaTime == now - md.lastUpdateTime
        md0 == [md EXCEPT !.lastUpdateTime = now]
        md1 == IF TBelow(ts.T, impactT[1], impactT[2]) /\ md0.impactTriggered
               THEN [md0 EXCEPT !.impactTriggered = FALSE] ELSE md0
    IN  IF ~ts.isPlaying
        THEN [metadata |-> md0, triggered |-> {}, deltaTime |-> NoDelta]
        ELSE IF ~TBelow(ts.T, impactT[1], impactT[2]) /\ ~md1.impactTriggered
        THEN [metadata |-> md1, triggered |-> Effects,
              deltaTime |-> deltaTime]
        ELSE [metadata |-> md1, triggered |-> {}, deltaTime |-> deltaTime]

updateSceneEntitiesNoReset(md, ts, now) ==
  IF ts = Undefined
  THEN [metadata |-> md, triggered |-> {}, deltaTime |-> NoDelta]
  ELSE
    LET deltaTime == now - md.lastUpdateTime
        md0 == [md EXCEPT !.lastUpdateTime = now]
    IN  IF ~ts.isPlaying
        THEN [metadata |-> md0, triggered |-> {}, deltaTime |-> NoDelta]
        ELSE IF ~TBelow(ts.T, impactT[1], impactT[2]) /\ ~md0.impactTriggered
        THEN [metadata |-> [md0 EXCEPT !.impactTriggered = TRUE],
              triggered |-> Effects, deltaTime |-> deltaTime]
        ELSE [metadata |-> md0, triggered |-> {}, deltaTime |-> deltaTime]

updateSceneEntitiesClockWhilePlaying(md, ts, now) ==
  IF ts = Undefined \/ ~ts.isPlaying
  THEN [metadata |-> md, triggered |-> {}, deltaTime |-> NoDelta]
  ELSE
    LET deltaTime == now - md.lastUpdateTime
        md0 == [md EXCEPT !.lastUpdateTime = now]
        md1 == IF TBelow(ts.T, impactT[1], impactT[2]) /\ md0.impactTriggered
               THEN [md0 EXCEPT !.impactTriggered = FALSE] ELSE md0
    IN  IF ~TBelow(ts.T, impactT[1], impactT[2]) /\ ~md1.impactTriggered
        THEN [metadata |-> [md1 EXCEPT !.impactTriggered = TRUE],
              triggered |-> Effects, deltaTime |-> deltaTime]
        ELSE [metadata |-> md1, triggered |-> {}, deltaTime |-> deltaTime]

\* now is performance.now(); deltaTime is what the frame passed to the
\* update() of the entities, or NoDelta when it returned before any
updateSceneEntities(md, ts, now) ==
  IF ts = Undefined
  THEN [metadata |-> md, triggered |-> {}, deltaTime |-> NoDelta]
  ELSE
    LET deltaTime == now - md.lastUpdateTime
        md0 == [md EXCEPT !.lastUpdateTime = now]
        md1 == IF TBelow(ts.T, impactT[1], impactT[2]) /\ md0.impactTriggered
               THEN [md0 EXCEPT !.impactTriggered = FALSE] ELSE md0
    IN  IF ~ts.isPlaying
        THEN [metadata |-> md0, triggered |-> {}, deltaTime |-> NoDelta]
        ELSE IF ~TBelow(ts.T, impactT[1], impactT[2]) /\ ~md1.impactTriggered
        THEN [metadata |-> [md1 EXCEPT !.impactTriggered = TRUE],
              triggered |-> Effects, deltaTime |-> deltaTime]
        ELSE [metadata |-> md1, triggered |-> {}, deltaTime |-> deltaTime]

\* --- observers of the overlay's frames
\* observer of the overlay's clock: time of the last frame that found a
\* timeline state (or of createScene), whether that frame saw the timeline
\* playing, whether there was one, and the time of the last frame of any kind
FrameClockNew == [at |-> 0, playing |-> FALSE, frames |-> FALSE, last |-> 0]

NoFrame == [ran |-> FALSE, read |-> Undefined, triggered |-> {},
            deltaTime |-> NoDelta, now |-> 0, since |-> FrameClockNew]

CrossingNew == [aboveFrames |-> 0, triggers |-> 0, life |-> "none",
                refired |-> FALSE, loop |-> 0, watched |-> FALSE]

Count(n) == Min(2, n + 1)

\* crossing after a frame in which updateSceneEntities read ts and called
\* the trigger() of the effects in trig
Observe(c, ts, trig) ==
  IF ts = Undefined \/ ~ts.isPlaying THEN c
  ELSE IF TBelow(ts.T, impactT[1], impactT[2])
  THEN [c EXCEPT !.aboveFrames = 0,
                 !.triggers = IF trig = {} THEN 0 ELSE 1,
                 !.life = IF trig # {} THEN "fired"
                          ELSE IF @ = "restarted" THEN "rearmed" ELSE @,
                 !.loop = IF trig = {} THEN @ ELSE Count(@)]
  ELSE [c EXCEPT !.aboveFrames = Count(@),
                 !.triggers = IF trig = {} THEN @ ELSE Count(@),
                 !.life = IF trig # {} THEN "fired"
                          ELSE IF @ = "rearmed" THEN "missed" ELSE @,
                 !.refired = @ \/ (trig # {} /\ c.life = "rearmed"),
                 !.loop = IF trig = {} THEN @ ELSE Count(@)]

\* ------------------------------------------------- createCameraShake
\* Two loads of the page, given the same seed and the same calls: what
\* Math.random() returns is drawn separately in each.
Runs == 1..2

\* config.duration (1.2 s) in ticks, and the largest dtSec of a frame
ShakeDuration == 3
MaxDt == 2
\* values of a phase offset Math.random() * 2 * PI, in quarter turns
NumPhases == 4
Phases == 0..(NumPhases - 1)
\* trigger() is not called with the camera further than this from rest
MaxDrift == 2

\* position and rotation of the overlay camera as createScene leaves it, on
\* one axis
RestPosition == 0
RestRotation == 0

\* sin() at whole quarter turns
Wave(k) == CASE k % 4 = 1 -> 1 [] k % 4 = 3 -> -1 [] OTHER -> 0

\* maxAmplitude * damping * intensity: positive as long as age < duration
Amplitude(age) == ShakeDuration - age

NoShake ==
  [created |-> FALSE, active |-> FALSE, age |-> 0, phaseX |-> 0,
   originalPosition |-> RestPosition, originalRotation |-> RestRotation,
   position |-> RestPosition, rotation |-> RestRotation]

\* createCameraShake(camera): originalPosition is the camera's position;
\* ph is the phase offset drawn (phaseY, phaseZ are drawn the same way)
createCameraShake(ph) ==
  [NoShake EXCEPT !.created = TRUE, !.phaseX = ph]

shakeTrigger(c, ph) ==
  [c EXCEPT !.active = TRUE, !.age = 0,
            !.originalPosition = c.position,
            !.originalRotation = c.rotation,
            !.phaseX = ph]

shakeUpdate(c, dtSec) ==
  IF ~c.active THEN c
  ELSE LET age == c.age + dtSec
       IN  IF age >= ShakeDuration
           THEN [c EXCEPT !.age = age, !.active = FALSE,
                          !.position = c.originalPosition,
                          !.rotation = c.originalRotation]
           ELSE [c EXCEPT !.age = age,
                          !.position = c.originalPosition
                                         + Wave(age + c.phaseX) * Amplitude(age),
                          !.rotation = c.originalRotation
                                         + Wave(age + c.phaseX + 1)
                                             * Amplitude(age)]

shakeStop(c) ==
  [c EXCEPT !.active = FALSE,
            !.position = c.originalPosition,
            !.rotation = c.originalRotation]

isActive(c) == c.active

\* ------------------------------------------------- particleSystems.js
\* T is given in hundredths; emit rates are numerators over RateDen, the
\* denominator of particleIntensity = (T - 0.3) / (1.0 - 0.3)
ParticleTs == 0..99
NoT == -1
RateDen == 70

PARTICLE_CONFIG ==
  [fire   |-> [emitRate |-> 300, minEmitPower |-> 5, maxEmitPower |-> 10,
               gravity |-> -2],
   smoke  |-> [emitRate |-> 150, minEmitPower |-> 2, maxEmitPower |-> 5,
               gravity |-> 1],
   sparks |-> [emitRate |-> 100, minEmitPower |-> 8, maxEmitPower |-> 15,
               gravity |-> -15]]

\* createFireSystem / createSmokeSystem / createSparkSystem: configured
\* from PARTICLE_CONFIG and started
createSystem(config) ==
  [started |-> TRUE, emitRate |-> config.emitRate * RateDen,
   minEmitPower |-> config.minEmitPower,
   maxEmitPower |-> config.maxEmitPower,
   gravity |-> config.gravity]

createParticleSystems ==
  [fire   |-> createSystem(PARTICLE_CONFIG.fire),
   smoke  |-> createSystem(PARTICLE_CONFIG.smoke),
   sparks |-> createSystem(PARTICLE_CONFIG.sparks)]

updateParticleSystems(systems, T) ==
  LET particleIntensity == IF T < 30 THEN 0 ELSE T - 30
  IN  IF T < 95
      THEN [systems EXCEPT
              !.fire.emitRate = PARTICLE_CONFIG.fire.emitRate
                                  * particleIntensity,
              !.smoke.emitRate = PARTICLE_CONFIG.smoke.emitRate
                                   * particleIntensity,
              !.sparks.emitRate = PARTICLE_CONFIG.sparks.emitRate
                                    * particleIntensity]
      ELSE IF T < 97
      THEN [systems EXCEPT
              !.fire.emitRate = PARTICLE_CONFIG.fire.emitRate * 5 * RateDen,
              !.smoke.emitRate = PARTICLE_CONFIG.smoke.emitRate * 3 * RateDen,
              !.sparks.emitRate = PARTICLE_CONFIG.sparks.emitRate
                                    * 10 * RateDen]
      ELSE [systems EXCEPT
              !.fire.started = FALSE,
              !.sparks.started = FALSE,
              !.smoke.emitRate = (PARTICLE_CONFIG.smoke.emitRate * 3
                                    * RateDen) \div 10,
              !.smoke.gravity = 3,
              !.smoke.minEmitPower = 1,
              !.smoke.maxEmitPower = 3]

\* ------------------------------------------------ asteroid: updateHeating
\* T and heatThreshold are in hundredths, heatColor and maxEmissive in
\* tenths; an emissive component is a numerator over HeatDen
HeatTs == 0..100

ASTEROID_CONFIG ==
  [heatColor |-> [r |-> 10, g |-> 4, b |-> 1], maxEmissive |-> 25,
   heatThreshold |-> 40]

\* (1.0 - heatThreshold)^2, times the tenths of heatColor and of maxEmissive
HeatDen ==
  (100 - ASTEROID_CONFIG.heatThreshold) * (100 - ASTEROID_CONFIG.heatThreshold)
    * 10 * 10

\* createAsteroidMaterial: emissive starts at zero
createAsteroidMaterial == [emissiveColor |-> [r |-> 0, g |-> 0, b |-> 0]]

updateHeatingFromZero(mat, T) ==
  LET heatIntensity == T * T
  IN  [mat EXCEPT !.emissiveColor =
         [c \in {"r", "g", "b"} |->
            ASTEROID_CONFIG.heatColor[c] * heatIntensity
              * ASTEROID_CONFIG.maxEmissive]]

\* heatIntensity is the numerator of normalizedHeat^2 over
\* (1.0 - heatThreshold)^2
updateHeating(mat, T) ==
  LET config == ASTEROID_CONFIG
      heatIntensity == IF T >= config.heatThreshold
                       THEN (T - config.heatThreshold)
                              * (T - config.heatThreshold)
                       ELSE 0
  IN  [mat EXCEPT !.emissiveColor =
         [c \in {"r", "g", "b"} |->
            config.heatColor[c] * heatIntensity * config.maxEmissive]]

\* ---------------------------------------------------- createShockwave
\* config.delay (0.1 s) and config.duration (1.5 s) in ticks
ShockDelay == 2
ShockDuration == 30
\* finished shockwaves that are counted
MaxRuns == 3

\* state of the controller, with isVisible of the ring mesh
createShockwave ==
  [active |-> FALSE, triggered |-> FALSE, age |-> 0, isVisible |-> FALSE]

shockwaveTrigger(s) == [s EXCEPT !.triggered = TRUE]

shockwaveUpdate(s, dtSec) ==
  IF s.triggered /\ ~s.active
  THEN LET age == s.age + dtSec
       IN  IF age >= ShockDelay
           THEN [s EXCEPT !.active = TRUE, !.age = 0, !.isVisible = TRUE]
           ELSE [s EXCEPT !.age = age]
  ELSE IF ~s.active THEN s
  ELSE LET age == s.age + dtSec
       IN  IF age >= ShockDuration
           THEN [s EXCEPT !.age = age, !.active = FALSE,
                          !.triggered = FALSE, !.isVisible = FALSE]
           ELSE [s EXCEPT !.age = age]

shockwaveIsActive(s) == s.active \/ s.triggered

\* observer: update time accumulated since the last trigger() of an idle
\* controller, capped at the delay, and the shockwaves that have finished
ShockLogNew == [sinceTrigger |-> 0, runs |-> 0]

\* ------------------------------------------------------- class Asteroid
Lods == {"far", "mid", "near"}
Qualities == {"High", "Low"}

\* new meshes for the three levels, all hidden but the middle one, which
\* becomes the active mesh; activeMesh is held as the key of its level
initializeLODs(a) ==
  [a EXCEPT !.visible = [l \in Lods |-> l = "mid"], !.activeMesh = "mid"]

AsteroidNew(quality) ==
  initializeLODs([quality |-> quality, currentLOD |-> "mid",
                  activeMesh |-> "mid", visible |-> [l \in Lods |-> FALSE]])

setQuality(a, quality) ==
  IF a.quality = quality THEN a
  ELSE initializeLODs([a EXCEPT !.quality = quality])

desiredLOD(key) ==
  IF key = "FAR_APPROACH" THEN "far"
  ELSE IF key = "MID_APPROACH" THEN "mid"
  ELSE IF key \in {"NEAR_RUSH", "IMPACT", "AFTERMATH"} THEN "near"
  ELSE "mid"

updateLOD(a, t) ==
  LET desired == desiredLOD(getCurrentPhase(t).key)
  IN  IF desired # a.currentLOD
      THEN [a EXCEPT !.activeMesh = desired,
                     !.visible = [[@ EXCEPT ![a.activeMesh] = FALSE]
                                     EXCEPT ![desired] = TRUE],
                     !.currentLOD = desired]
      ELSE a

\* calculateScale(timeline) > 0.01: the scale is at least startScale (0.15)
\* before the aftermath and finalScale * 1.3 * max(0, 1 - fadeProgress) in
\* it, with fadeProgress = (t - 0.95) / 0.05
scaleAboveThreshold(t) ==
  \/ getCurrentPhase(t).key # "AFTERMATH"
  \/ TBelow(t, 95, 100)
  \/ 11700 * (totalDuration - t) > totalDuration

\* Asteroid.update(timeline, deltaTime) for a timeline at t
asteroidUpdate(a, t) ==
  LET a1 == updateLOD(a, t)
  IN  [a1 EXCEPT !.visible[a1.activeMesh] = scaleAboveThreshold(t)]

\* -------------------------------------------------- updateDebrisSystem
\* config.count and config.lifetime (2.0 s, in ticks) of PARTICLE_CONFIG.debris
DebrisCount == 2
DebrisLifetime == 3
\* pieces the impact burst tries to spawn in one call
BurstSize == 10
\* T, in hundredths, of the frames: before the entry phase, inside it, in the
\* impact burst, and after it
DebrisTs == {30, 50, 95, 98}
\* height of the emitter (the asteroid) above the ground
EmitterYs == {2}

\* a particle on the vertical axis; matrix is what matrices[i] holds:
\* "identity", "zero" (Matrix.Scaling(0, 0, 0)) or "composed"
createDebrisSystem ==
  [i \in 1..DebrisCount |->
     [y |-> 0, vy |-> 0, age |-> 0, active |-> FALSE, matrix |-> "identity"]]

\* index of particles.find(p => !p.active), or 0
FirstInactive(ps) ==
  IF \E i \in DOMAIN ps : ~ps[i].active
  THEN CHOOSE i \in DOMAIN ps :
         ~ps[i].active /\ \A j \in 1..(i - 1) : ps[j].active
  ELSE 0

debrisSpawn(ps, y, vy) ==
  LET i == FirstInactive(ps)
  IN  IF i = 0 THEN ps
      ELSE [ps EXCEPT ![i] = [@ EXCEPT !.y = y, !.vy = vy, !.age = 0,
                                       !.active = TRUE]]

RECURSIVE debrisBurst(_, _, _, _)
debrisBurst(ps, burst, y, vy) ==
  IF burst = 0 THEN ps
  ELSE LET i == FirstInactive(ps)
       IN  debrisBurst(debrisSpawn(ps, y, IF i = 0 THEN 0 ELSE vy[i]),
                       burst - 1, y, vy)

\* the body of the loop over the particles, for one particle; force is the
\* change of the vertical velocity by attraction and drag after the impact
debrisStep(p, deltaTime, T, force) ==
  IF ~p.active THEN [p EXCEPT !.matrix = "zero"]
  ELSE
    LET vy1 == p.vy - deltaTime
        vy  == IF T >= 95 THEN vy1 + force ELSE vy1
        y   == p.y + vy * deltaTime
        age == p.age + deltaTime
        p1  == [p EXCEPT !.vy = vy, !.y = y, !.age = age]
    IN  IF age >= DebrisLifetime \/ y < 0
        THEN [p1 EXCEPT !.active = FALSE]
        ELSE [p1 EXCEPT !.matrix = "composed"]

\* rnd holds what Math.random() decided in the call: whether the 5 % spawn
\* chance hit, the vertical velocity of the particle it spawned, and the
\* upward velocity of each particle of the burst
updateDebrisSystem(ps, deltaTime, emitterY, T, rnd, force) ==
  LET ps1 == IF T >= 40 /\ T < 95 /\ rnd.spawn
             THEN debrisSpawn(ps, emitterY, rnd.vy) ELSE ps
      ps2 == IF T >= 95 /\ T < 97
             THEN debrisBurst(ps1, BurstSize, emitterY, rnd.up) ELSE ps1
  IN  [i \in DOMAIN ps2 |-> debrisStep(ps2[i], deltaTime, T, force[i])]

\* ------------------------------------------------------------ the system
vars == <<timeline, lastOp, startedAt, iterations, everStarted,
          pausedAt, overlayInit, babylonOverlay, timelineState,
          metadata, frame, crossing, page, cameraShake,
          particleSystems, particleT, driver, twin, replay, rng,
          rngLog, lastClick, material, heatT, frameClock, shockwave,
          shockLog, asteroid, asteroidT, debrisSystem, debrisUpdated>>

\* state of the components that are also driven on their own; the actions
\* of the application leave it alone, but for the click observer
entityVars == <<cameraShake, particleSystems, particleT, driver, twin,
                replay, rng, rngLog, lastClick, material, heatT,
                frameClock, shockwave, shockLog, asteroid, asteroidT,
                debrisSystem, debrisUpdated>>

\* --- for each component, the entity variables that are not its own
othersShake == <<particleSystems, particleT, driver, twin, replay, rng,
                     rngLog, lastClick, material, heatT, frameClock, shockwave,
                     shockLog, asteroid, asteroidT, debrisSystem, debrisUpdated>>

othersParticles == <<cameraShake, driver, twin, replay, rng, rngLog, lastClick,
                         material, heatT, frameClock, shockwave, shockLog, asteroid,
                         asteroidT, debrisSystem, debrisUpdated>>

othersDriver == <<cameraShake, particleSystems, particleT, twin, replay, rng,
                      rngLog, lastClick, material, heatT, frameClock, shockwave,
                      shockLog, asteroid, asteroidT, debrisSystem, debrisUpdated>>

othersTwin == <<cameraShake, particleSystems, particleT, driver, replay,
                    rng, rngLog, lastClick, material, heatT, frameClock,
                    shockwave, shockLog, asteroid, asteroidT, debrisSystem,
                    debrisUpdated>>

othersReplay == <<cameraShake, particleSystems, particleT, driver, twin, rng,
                      rngLog, lastClick, material, heatT, frameClock, shockwave,
                      shockLog, asteroid, asteroidT, debrisSystem, debrisUpdated>>

othersRng == <<cameraShake, particleSystems, particleT, driver, twin,
                   replay, lastClick, material, heatT, frameClock, shockwave,
                   shockLog, asteroid, asteroidT, debrisSystem, debrisUpdated>>

othersUi == <<cameraShake, particleSystems, particleT, driver, twin,
                  replay, rng, rngLog, material, heatT, frameClock,
                  shockwave, shockLog, asteroid, asteroidT, debrisSystem,
                  debrisUpdated>>

othersHeating == <<cameraShake, particleSystems, particleT, driver, twin,
                       replay, rng, rngLog, lastClick, frameClock, shockwave,
                       shockLog, asteroid, asteroidT, debrisSystem, debrisUpdated>>

othersClock == <<cameraShake, particleSystems, particleT, driver, twin,
                     replay, rng, rngLog, lastClick, material, heatT, shockwave,
                     shockLog, asteroid, asteroidT, debrisSystem, debrisUpdated>>

othersShockwave == <<cameraShake, particleSystems, particleT, driver, twin,
                         replay, rng, rngLog, lastClick, material, heatT,
                         frameClock, asteroid, asteroidT, debrisSystem,
                         debrisUpdated>>

othersLod == <<cameraShake, particleSystems, particleT, driver, twin,
                   replay, rng, rngLog, lastClick, material, heatT,
                   frameClock, shockwave, shockLog, debrisSystem,
                   debrisUpdated>>

othersDebris == <<cameraShake, particleSystems, particleT, driver, twin,
                      replay, rng, rngLog, lastClick, material, heatT,
                      frameClock, shockwave, shockLog, asteroid, asteroidT>>

overlayVars == <<overlayInit, babylonOverlay, timelineState, metadata,
                 crossing>>

\* the seed initImpactOverlay() builds its scene with when called without one
initImpactOverlaySeed == 12345

NoScene == -1

\* init(): starfield and environment are created from currentSeed; the
\* overlay scene does not exist yet
PageNew ==
  [currentSeed |-> DEFAULT_SEED, inputSeed |-> DEFAULT_SEED,
   starfield |-> DEFAULT_SEED, environment |-> DEFAULT_SEED,
   overlay |-> NoScene, btnActive |-> FALSE]

\* frames of a recorded run, and calls made between the run and its replay
ReplayFrames == 2
MaxDisturb == 2

ReplayNew ==
  [stage |-> "idle", t0 |-> 0, stamps |-> <<>>, first |-> <<>>,
   second |-> <<>>, disturbed |-> 0, left |-> None]

Mode(tl, started) ==
  IF tl.isPlaying THEN "Playing" ELSE IF started THEN "Paused" ELSE "Idle"

Init ==
  /\ timeline = TimelineNew(DEFAULT_SEED)
  /\ lastOp = [name |-> "new", now |-> 0, from |-> "Idle"]
  /\ startedAt = NoStart
  /\ iterations = 0
  /\ everStarted = FALSE
  /\ pausedAt = None
  /\ overlayInit = "pending"
  /\ babylonOverlay = "null"
  /\ timelineState = Undefined
  /\ metadata = MetadataNew
  /\ frame = NoFrame
  /\ crossing = CrossingNew
  /\ page = PageNew
  /\ cameraShake = [r \in Runs |-> NoShake]
  /\ particleSystems = createParticleSystems
  /\ particleT = NoT
  /\ driver = TimelineDriverNew
  /\ twin = TimelineNew(OtherSeed)
  /\ replay = ReplayNew
  /\ rng = SeededRNGNew(DEFAULT_SEED)
  /\ rngLog = RngLogNew
  /\ lastClick = "none"
  /\ material = createAsteroidMaterial
  /\ heatT = NoT
  /\ frameClock = FrameClockNew
  /\ shockwave = createShockwave
  /\ shockLog = ShockLogNew
  /\ asteroid = AsteroidNew("High")
  /\ asteroidT = NoT
  /\ debrisSystem = createDebrisSystem
  /\ debrisUpdated = FALSE

\* --- calls on the timeline, with the bookkeeping of the observers
CallRestart(now) ==
  /\ timeline' = restart(timeline, now)
  /\ lastOp' = [name |-> "restart", now |-> now,
                from |-> Mode(timeline, everStarted)]
  /\ startedAt' = now
  /\ iterations' = 0
  /\ everStarted' = TRUE
  /\ pausedAt' = None

CallPause ==
  /\ timeline' = pause(timeline)
  /\ lastOp' = [name |-> "pause", now |-> 0,
                from |-> Mode(timeline, everStarted)]
  /\ startedAt' = NoStart
  /\ iterations' = 0
  /\ pausedAt' = IF timeline.isPlaying
                 THEN [timeSeconds |-> timeline.timeSeconds,
                       accumulator |-> timeline.accumulator,
                       lastRealTime |-> timeline.lastRealTime]
                 ELSE pausedAt
  /\ UNCHANGED everStarted

CallResume(now) ==
  /\ timeline' = resume(timeline, now)
  /\ lastOp' = [name |-> "resume", now |-> now,
                from |-> Mode(timeline, everStarted)]
  /\ startedAt' = NoStart
  /\ iterations' = 0
  /\ everStarted' = TRUE
  /\ UNCHANGED pausedAt

CallUpdate(now) ==
  /\ timeline.isPlaying =>
       timeline.accumulator + (now - timeline.lastRealTime) >= -MaxDebt
  /\ timeline' = update(timeline, now)
  /\ lastOp' = [name |-> "update", now |-> now,
                from |-> Mode(timeline, everStarted)]
  /\ startedAt' = IF timeline.isPlaying /\ now < timeline.lastRealTime
                  THEN NoStart ELSE startedAt
  /\ iterations' = Min(CatchUpCap + 1, updateIterations(timeline, now))
  /\ pausedAt' = IF timeline.isPlaying THEN None ELSE pausedAt
  /\ UNCHANGED everStarted

CallSetSeed(s) ==
  /\ timeline' = setSeed(timeline, s)
  /\ lastOp' = [name |-> "setSeed", now |-> 0,
                from |-> Mode(timeline, everStarted)]
  /\ UNCHANGED <<startedAt, iterations, everStarted, pausedAt>>

\* --- the Timeline class driven directly, with arbitrary timestamps
Restart == \E now \in Times :
  CallRestart(now) /\ frame' = NoFrame
    /\ UNCHANGED <<overlayVars, page, entityVars>>

Pause == CallPause /\ frame' = NoFrame
    /\ UNCHANGED <<overlayVars, page, entityVars>>

Resume == \E now \in Times :
  CallResume(now) /\ frame' = NoFrame
    /\ UNCHANGED <<overlayVars, page, entityVars>>

Update == \E now \in Times :
  CallUpdate(now) /\ frame' = NoFrame
    /\ UNCHANGED <<overlayVars, page, entityVars>>

SetSeed == \E s \in Seeds :
  CallSetSeed(s) /\ frame' = NoFrame
    /\ UNCHANGED <<overlayVars, page, entityVars>>

Next == Restart \/ Pause \/ Resume \/ Update \/ SetSeed

Spec == Init /\ [][Next]_vars

\* --- the application: animation frames and the Play / Restart button
\* scene.render() of the overlay runs updateSceneEntities before rendering
RenderOverlay(ts, c, now) ==
  IF babylonOverlay = "overlay"
  THEN LET r == updateSceneEntities(metadata, ts, now)
       IN  /\ metadata' = r.metadata
           /\ frame' = [ran |-> TRUE, read |-> ts, triggered |-> r.triggered,
                        deltaTime |-> r.deltaTime, now |-> now,
                        since |-> frameClock]
           /\ crossing' = Observe(c, ts, r.triggered)
  ELSE /\ metadata' = metadata
       /\ frame' = NoFrame
       /\ crossing' = c

\* update(tl, now) takes the timeline past totalDuration, into a new loop
Wrapped(tl, now) ==
  /\ tl.isPlaying
  /\ tl.timeSeconds + updateIterations(tl, now) * fixedTimeStep
       >= totalDuration

\* crossing at the start of a frame: a new loop has no trigger yet, and is
\* watched from its start when the overlay exists
LoopTurn(c, tl, now) ==
  IF Wrapped(tl, now)
  THEN [c EXCEPT !.loop = 0, !.watched = (babylonOverlay = "overlay")]
  ELSE c

\* UIOverlay.update(): the Play button shows whether the timeline plays
uiUpdate(pg, tl) == [pg EXCEPT !.btnActive = getState(tl).isPlaying]

\* main.js animate(): performance.now() never runs backwards
animate == \E now \in Times :
  /\ now >= timeline.lastRealTime
  /\ CallUpdate(now)
  /\ page' = uiUpdate(page, timeline')
  /\ RenderOverlay(timelineState, LoopTurn(crossing, timeline, now), now)
  /\ UNCHANGED <<overlayInit, babylonOverlay, timelineState, entityVars>>

\* animate() of a page that also publishes the timeline state for the
\* overlay (window.__timelineState = timeline.getState()) after the update
animatePublishing == \E now \in Times :
  /\ now >= timeline.lastRealTime
  /\ CallUpdate(now)
  /\ timelineState' = getState(timeline')
  /\ page' = uiUpdate(page, timeline')
  /\ RenderOverlay(timelineState', LoopTurn(crossing, timeline, now), now)
  /\ UNCHANGED <<overlayInit, babylonOverlay, entityVars>>

\* click on Play / Restart: pause when playing, else handleRestart
btnPlayClick == \E now \in Times :
  /\ IF timeline.isPlaying
     THEN /\ CallPause
          /\ page' = [page EXCEPT !.btnActive = FALSE]
          /\ lastClick' = "pause"
          /\ crossing' = crossing
     ELSE /\ CallRestart(now)
          /\ page' = [page EXCEPT !.btnActive = TRUE]
          /\ lastClick' = "play"
          /\ crossing' = [crossing EXCEPT
                            !.life = IF @ = "fired" THEN "restarted" ELSE @,
                            !.loop = 0,
                            !.watched = (babylonOverlay = "overlay")]
  /\ frame' = NoFrame
  /\ UNCHANGED <<overlayInit, babylonOverlay, timelineState, metadata,
                 othersUi>>

\* seed input of the UI (change, or Enter): handleSeedChange(newSeed)
handleSeedChange(newSeed) ==
  /\ page' = [page EXCEPT !.currentSeed = newSeed, !.inputSeed = newSeed]
  /\ CallSetSeed(newSeed)
  /\ frame' = NoFrame
  /\ UNCHANGED <<overlayVars, entityVars>>

\* parseInt() of what was typed: any integer, a negative one included
NegativeSeed == -1
SeedInputs == Seeds \cup {NegativeSeed}

inputSeedChange == \E newSeed \in SeedInputs : handleSeedChange(newSeed)

\* initBabylonOverlay(): the awaited initImpactOverlay() resolves; the
\* scene it created starts with impactTriggered = false
initOverlayResolved == \E now \in Times :
  /\ overlayInit = "pending"
  /\ overlayInit' = "resolved"
  /\ babylonOverlay' = "overlay"
  /\ metadata' = createScene(now)
  /\ page' = [page EXCEPT !.overlay = initImpactOverlaySeed]
  /\ frame' = NoFrame
  /\ UNCHANGED <<timeline, lastOp, startedAt, iterations, everStarted,
                 pausedAt, timelineState, crossing, entityVars>>

initOverlayRejectedHalfBuilt ==
  /\ overlayInit = "pending"
  /\ overlayInit' = "rejected"
  /\ babylonOverlay' = "overlay"
  /\ frame' = NoFrame
  /\ UNCHANGED <<timeline, lastOp, startedAt, iterations, everStarted,
                 pausedAt, timelineState, metadata, crossing, page,
                 entityVars>>

\* initBabylonOverlay(): initImpactOverlay() rejects, the error is logged
initOverlayRejected ==
  /\ overlayInit = "pending"
  /\ overlayInit' = "rejected"
  /\ frame' = NoFrame
  /\ UNCHANGED <<timeline, lastOp, startedAt, iterations, everStarted,
                 pausedAt, babylonOverlay, timelineState, metadata,
                 crossing, page, entityVars>>

NextApp == animate \/ btnPlayClick \/ inputSeedChange
             \/ initOverlayResolved \/ initOverlayRejected

SpecApp == Init /\ [][NextApp]_vars

NextLinked == animatePublishing \/ btnPlayClick \/ inputSeedChange
                \/ initOverlayResolved \/ initOverlayRejected

SpecLinked == Init /\ [][NextLinked]_vars

\* --- the camera-shake controller driven directly, in both page loads
appVars == <<timeline, lastOp, startedAt, iterations, everStarted, pausedAt,
             overlayInit, babylonOverlay, timelineState, metadata, frame,
             crossing, page>>

Abs(x) == IF x < 0 THEN -x ELSE x

CreateShake ==
  /\ \A r \in Runs : ~cameraShake[r].created
  /\ \E ph \in [Runs -> Phases] :
       cameraShake' = [r \in Runs |-> createCameraShake(ph[r])]
  /\ UNCHANGED <<appVars, othersShake>>

ShakeTrigger ==
  /\ \A r \in Runs : /\ cameraShake[r].created
                     /\ Abs(cameraShake[r].position) <= MaxDrift
                     /\ Abs(cameraShake[r].rotation) <= MaxDrift
  /\ \E ph \in [Runs -> Phases] :
       cameraShake' = [r \in Runs |-> shakeTrigger(cameraShake[r], ph[r])]
  /\ UNCHANGED <<appVars, othersShake>>

ShakeUpdate == \E dtSec \in 1..MaxDt :
  /\ \A r \in Runs : cameraShake[r].created
  /\ cameraShake' = [r \in Runs |-> shakeUpdate(cameraShake[r], dtSec)]
  /\ UNCHANGED <<appVars, othersShake>>

ShakeStop ==
  /\ \A r \in Runs : cameraShake[r].created
  /\ cameraShake' = [r \in Runs |-> shakeStop(cameraShake[r])]
  /\ UNCHANGED <<appVars, othersShake>>

NextShake == CreateShake \/ ShakeTrigger \/ ShakeUpdate \/ ShakeStop

SpecShake == Init /\ [][NextShake]_vars

\* --- the particle emitters driven frame by frame with the T of each frame
UpdateParticles == \E T \in ParticleTs :
  /\ particleSystems' = updateParticleSystems(particleSystems, T)
  /\ particleT' = T
  /\ UNCHANGED <<appVars, othersParticles>>

NextParticles == UpdateParticles

SpecParticles == Init /\ [][NextParticles]_vars

\* --- the TimelineDriver class driven directly, with arbitrary timestamps
DriverRestart == \E startTimeMs \in Times :
  /\ driver' = driverRestart(driver, startTimeMs)
  /\ UNCHANGED <<appVars, othersDriver>>

DriverStop ==
  /\ driver' = driverStop(driver)
  /\ UNCHANGED <<appVars, othersDriver>>

DriverUpdate == \E nowMs \in 0..MaxNow :
  /\ driver' = driverUpdate(driver, nowMs)
  /\ UNCHANGED <<appVars, othersDriver>>

NextDriver == DriverRestart \/ DriverStop \/ DriverUpdate

SpecDriver == Init /\ [][NextDriver]_vars

\* --- two Timeline instances given the same calls with the same timestamps;
\* the second one's seed is any seed, and setSeed() may change it mid-run
TwinRestart == \E now \in Times :
  /\ CallRestart(now)
  /\ twin' = restart(twin, now)
  /\ frame' = NoFrame
  /\ UNCHANGED <<overlayVars, page, othersTwin>>

TwinPause ==
  /\ CallPause
  /\ twin' = pause(twin)
  /\ frame' = NoFrame
  /\ UNCHANGED <<overlayVars, page, othersTwin>>

TwinResume == \E now \in Times :
  /\ CallResume(now)
  /\ twin' = resume(twin, now)
  /\ frame' = NoFrame
  /\ UNCHANGED <<overlayVars, page, othersTwin>>

TwinUpdate == \E now \in Times :
  /\ CallUpdate(now)
  /\ twin' = update(twin, now)
  /\ frame' = NoFrame
  /\ UNCHANGED <<overlayVars, page, othersTwin>>

TwinSetSeed == \E s \in Seeds :
  /\ twin' = setSeed(twin, s)
  /\ UNCHANGED <<appVars, othersTwin>>

NextTwin == TwinRestart \/ TwinPause \/ TwinResume \/ TwinUpdate
              \/ TwinSetSeed

SpecTwin == Init /\ [][NextTwin]_vars

\* --- restart(t0); N frames; any other calls; restart(t0); the same N frames
ReplayFirstRestart == \E t0 \in Times :
  /\ replay.stage = "idle"
  /\ CallRestart(t0)
  /\ replay' = [replay EXCEPT !.stage = "first", !.t0 = t0]
  /\ frame' = NoFrame
  /\ UNCHANGED <<overlayVars, page, othersReplay>>

ReplayFirstFrame == \E now \in Times :
  /\ replay.stage = "first"
  /\ Len(replay.stamps) < ReplayFrames
  /\ CallUpdate(now)
  /\ replay' = [replay EXCEPT !.stamps = Append(@, now),
                              !.first = Append(@, timeline'.T)]
  /\ frame' = NoFrame
  /\ UNCHANGED <<overlayVars, page, othersReplay>>

ReplayDisturb == \E now \in Times :
  /\ replay.stage \in {"first", "between"}
  /\ Len(replay.stamps) = ReplayFrames
  /\ replay.disturbed < MaxDisturb
  /\ CallPause \/ CallResume(now) \/ CallUpdate(now)
  /\ replay' = [replay EXCEPT !.stage = "between", !.disturbed = @ + 1]
  /\ frame' = NoFrame
  /\ UNCHANGED <<overlayVars, page, othersReplay>>

ReplaySecondRestart ==
  /\ replay.stage \in {"first", "between"}
  /\ Len(replay.stamps) = ReplayFrames
  /\ CallRestart(replay.t0)
  /\ replay' = [replay EXCEPT !.stage = "second",
                              !.left = [isPlaying |-> timeline.isPlaying,
                                        accumulator |-> timeline.accumulator,
                                        timeSeconds |-> timeline.timeSeconds]]
  /\ frame' = NoFrame
  /\ UNCHANGED <<overlayVars, page, othersReplay>>

ReplaySecondFrame ==
  /\ replay.stage = "second"
  /\ Len(replay.second) < Len(replay.stamps)
  /\ CallUpdate(replay.stamps[Len(replay.second) + 1])
  /\ replay' = [replay EXCEPT !.second = Append(@, timeline'.T)]
  /\ frame' = NoFrame
  /\ UNCHANGED <<overlayVars, page, othersReplay>>

NextReplay == ReplayFirstRestart \/ ReplayFirstFrame \/ ReplayDisturb
                \/ ReplaySecondRestart \/ ReplaySecondFrame

SpecReplay == Init /\ [][NextReplay]_vars

\* --- the SeededRNG class driven directly
RngNext ==
  /\ Len(rngLog.drawn) < MaxDraws
  /\ LET d == next(rng)
     IN  /\ rng' = d.rng
         /\ rngLog' = [rngLog EXCEPT !.drawn = Append(@, d.value),
                                     !.call = "next", !.value = d.value,
                                     !.draws = 1]
  /\ UNCHANGED <<appVars, othersRng>>

RngReset ==
  /\ rng' = rngReset(rng)
  /\ rngLog' = [RngLogNew EXCEPT !.call = "reset"]
  /\ UNCHANGED <<appVars, othersRng>>

RngSetSeed == \E newSeed \in RngSeeds :
  /\ rng' = rngSetSeed(rng, newSeed)
  /\ rngLog' = [RngLogNew EXCEPT !.call = "setSeed", !.value = newSeed]
  /\ UNCHANGED <<appVars, othersRng>>

RngRangeInt == \E min \in RangeBounds, max \in RangeBounds :
  /\ min <= max
  /\ Len(rngLog.drawn) < MaxDraws
  /\ LET d == rangeInt(rng, min, max)
         drawn == Outputs(rng, d.draws)
     IN  /\ rng' = d.rng
         /\ rngLog' = [drawn |-> rngLog.drawn \o drawn, call |-> "rangeInt",
                       min |-> min, max |-> max, value |-> d.value,
                       draws |-> (d.rng.state - rng.state) \div Increment]
  /\ UNCHANGED <<appVars, othersRng>>

NextRng == RngNext \/ RngReset \/ RngSetSeed \/ RngRangeInt

SpecRng == Init /\ [][NextRng]_vars

\* --- the asteroid material heated frame by frame with the T of each frame
UpdateHeating == \E T \in HeatTs :
  /\ material' = updateHeating(material, T)
  /\ heatT' = T
  /\ UNCHANGED <<appVars, othersHeating>>

NextHeating == UpdateHeating

SpecHeating == Init /\ [][NextHeating]_vars

\* --- the shockwave controller driven directly
ShockwaveTrigger ==
  /\ shockwave' = shockwaveTrigger(shockwave)
  /\ shockLog' = IF shockwaveIsActive(shockwave) THEN shockLog
                 ELSE [shockLog EXCEPT !.sinceTrigger = 0]
  /\ UNCHANGED <<appVars, othersShockwave>>

ShockwaveUpdate == \E dtSec \in 1..MaxDt :
  /\ shockLog.runs < MaxRuns
  /\ shockwave' = shockwaveUpdate(shockwave, dtSec)
  /\ shockLog' =
       [sinceTrigger |-> Min(ShockDelay, shockLog.sinceTrigger + dtSec),
        runs |-> IF shockwave.active /\ ~shockwave'.active
                 THEN shockLog.runs + 1 ELSE shockLog.runs]
  /\ UNCHANGED <<appVars, othersShockwave>>

NextShockwave == ShockwaveTrigger \/ ShockwaveUpdate

SpecShockwave == Init /\ [][NextShockwave]_vars

\* --- the Asteroid driven directly: frames at any t, and quality changes
AsteroidUpdate == \E t \in 0..(totalDuration - 1) :
  /\ asteroid' = asteroidUpdate(asteroid, t)
  /\ asteroidT' = t
  /\ UNCHANGED <<appVars, othersLod>>

AsteroidSetQuality == \E quality \in Qualities :
  /\ asteroid' = setQuality(asteroid, quality)
  /\ UNCHANGED <<asteroidT, appVars, othersLod>>

NextLod == AsteroidUpdate \/ AsteroidSetQuality

SpecLod == Init /\ [][NextLod]_vars

\* --- the debris system updated frame by frame
UpdateDebris ==
  \E deltaTime \in 1..MaxDt, T \in DebrisTs, emitterY \in EmitterYs :
  \E spawn \in (IF T >= 40 /\ T < 95 THEN BOOLEAN ELSE {FALSE}) :
  \E vy \in (IF spawn THEN -1..1 ELSE {0}),
     up \in (IF T >= 95 /\ T < 97
             THEN [1..DebrisCount -> 0..1] ELSE {[i \in 1..DebrisCount |-> 0]}),
     force \in (IF T >= 95
                THEN [1..DebrisCount -> -1..1]
                ELSE {[i \in 1..DebrisCount |-> 0]}) :
    /\ debrisSystem' =
         updateDebrisSystem(debrisSystem, deltaTime, emitterY, T,
                            [spawn |-> spawn, vy |-> vy, up |-> up], force)
    /\ debrisUpdated' = TRUE
    /\ UNCHANGED <<appVars, othersDebris>>

NextDebris == UpdateDebris

SpecDebris == Init /\ [][NextDebris]_vars

\* --- updateSceneEntities called frame by frame on the scene createScene(0)
\* made, with the timeline state each frame finds in window.__timelineState
FrameStates ==
  {Undefined} \cup
  {getState([TimelineNew(DEFAULT_SEED) EXCEPT
               !.isPlaying = p, !.timeSeconds = t, !.T = t]) :
     p \in BOOLEAN, t \in {0, totalDuration - fixedTimeStep}}

OverlayFrame == \E currentTime \in Times, ts \in FrameStates :
  /\ currentTime >= frameClock.last
  /\ LET r == updateSceneEntities(metadata, ts, currentTime)
     IN  /\ metadata' = r.metadata
         /\ frame' = [ran |-> TRUE, read |-> ts, triggered |-> r.triggered,
                      deltaTime |-> r.deltaTime, now |-> currentTime,
                      since |-> frameClock]
  /\ frameClock' = IF ts = Undefined
                   THEN [frameClock EXCEPT !.last = currentTime]
                   ELSE [at |-> currentTime, playing |-> ts.isPlaying,
                         frames |-> TRUE, last |-> currentTime]
  /\ UNCHANGED <<timeline, lastOp, startedAt, iterations, everStarted,
                 pausedAt, overlayInit, babylonOverlay, timelineState,
                 crossing, page, othersClock>>

NextOverlayClock == OverlayFrame

SpecOverlayClock == Init /\ [][NextOverlayClock]_vars

\* ================================================================ claims

UpdateIterationsCapped == iterations <= CatchUpCap

\* C3: update(now) with now earlier than lastRealTime, while playing,
\* leaves accumulator and timeSeconds unchanged.
NegativeDeltaIgnored ==
  [][(/\ timeline.isPlaying
      /\ lastOp'.name = "update"
      /\ lastOp'.now < timeline.lastRealTime)
     => /\ timeline'.accumulator = timeline.accumulator
        /\ timeline'.timeSeconds = timeline.timeSeconds]_vars

\* C4: in every reachable state 0 <= accumulator < fixedTimeStep.
AccumulatorInRange ==
  /\ 0 <= timeline.accumulator
  /\ timeline.accumulator < fixedTimeStep

\* C9: restart(now) from any state yields isPlaying, timeSeconds = 0,
\* accumulator = 0, T = 0 and lastRealTime = now, and the update(u) that
\* directly follows it leaves timeSeconds and accumulator a function of
\* u - now alone.
RestartResets ==
  lastOp.name = "restart" =>
    /\ timeline.isPlaying
    /\ timeline.timeSeconds = 0
    /\ timeline.accumulator = 0
    /\ timeline.T = 0
    /\ timeline.lastRealTime = lastOp.now

FirstUpdateAfterRestart ==
  (lastOp.name = "restart" /\ lastOp'.name = "update") =>
    LET d == lastOp'.now - lastOp.now
    IN  IF d >= 0
        THEN /\ timeline'.timeSeconds =
                  ((d \div fixedTimeStep) * fixedTimeStep) % totalDuration
             /\ timeline'.accumulator = d % fixedTimeStep
        ELSE /\ timeline'.timeSeconds = 0
             /\ timeline'.accumulator = d

RestartIsTotal == []RestartResets /\ [][FirstUpdateAfterRestart]_vars

\* C9 witness: restart, at a non-zero time, of a paused timeline
RestartedFromPaused ==
  /\ lastOp.name = "restart"
  /\ lastOp.from = "Paused"
  /\ lastOp.now > 0

\* C10: after pause() and resume(r), timeSeconds and accumulator are what
\* they were when the timeline was paused, and the update(u) that directly
\* follows resume(r) integrates exactly u - r.
ResumeKeepsPausedTime ==
  (lastOp.name = "resume" /\ pausedAt # None) =>
    /\ timeline.timeSeconds = pausedAt.timeSeconds
    /\ timeline.accumulator = pausedAt.accumulator

FirstUpdateAfterResume ==
  (lastOp.name = "resume" /\ lastOp'.name = "update") =>
    LET d == lastOp'.now - lastOp.now
        steps == (timeline.accumulator + d - timeline'.accumulator)
                   \div fixedTimeStep
    IN  /\ timeline.accumulator + d - timeline'.accumulator
             = steps * fixedTimeStep
        /\ steps >= 0
        /\ timeline'.timeSeconds =
             (timeline.timeSeconds + steps * fixedTimeStep) % totalDuration
        /\ timeline'.accumulator < fixedTimeStep
        /\ steps > 0 => timeline'.accumulator >= 0

PausedTimeNotIntegrated ==
  []ResumeKeepsPausedTime /\ [][FirstUpdateAfterResume]_vars

\* C10 witness: resume later than the pause, of a timeline paused with
\* elapsed time and a remainder in the accumulator
ResumedAfterGap ==
  /\ lastOp.name = "resume"
  /\ pausedAt # None
  /\ pausedAt.timeSeconds > 0
  /\ pausedAt.accumulator = 1
  /\ lastOp.now > pausedAt.lastRealTime

\* C5: over consecutive playing frames that observe T >= impactT the three
\* effects are triggered exactly once, all on the first of those frames.
ImpactFiresOncePerCrossing ==
  /\ crossing.aboveFrames >= 1 => crossing.triggers = 1
  /\ frame.triggered # {} =>
       /\ frame.triggered = Effects
       /\ crossing.aboveFrames = 1
       /\ metadata.impactTriggered
  /\ (frame.ran /\ crossing.aboveFrames = 1 /\ frame.read # Undefined
        /\ frame.read.isPlaying
        /\ ~TBelow(frame.read.T, impactT[1], impactT[2]))
       => frame.triggered = Effects

\* C5 witness: a second playing frame in a row has observed T >= impactT
SecondFrameAboveThreshold ==
  /\ frame.ran
  /\ crossing.aboveFrames = 2
  /\ crossing.triggers = 1
  /\ frame.triggered = {}

ImpactLatchInImpactPhase ==
  updateSceneEntities(MetadataNew, getState(timeline), 0).triggered # {} =>
    /\ timeline.phaseName = "Impact"
    /\ getCurrentPhase(timeline.T).key = "IMPACT"

\* C8: in a frame in which the overlay runs while the timeline is playing,
\* the T that updateSceneEntities reads is the T that timeline.update()
\* produced in that frame.
OverlayReadsFrameT ==
  (frame.ran /\ timeline.isPlaying) =>
    /\ frame.read # Undefined
    /\ frame.read.T = timeline.T

\* C11: pause() changes only isPlaying, and update(now) on a timeline that
\* is not playing changes nothing, lastRealTime included.
PauseAndIdleUpdateFreeze ==
  [][/\ lastOp'.name = "pause" =>
          timeline' = [timeline EXCEPT !.isPlaying = FALSE]
     /\ (lastOp'.name = "update" /\ ~timeline.isPlaying) =>
          timeline' = timeline]_vars

\* C11 witness: update() at a new timestamp on a timeline paused after it
\* had run
IdleUpdateIgnored ==
  /\ lastOp.name = "update"
  /\ lastOp.from = "Paused"
  /\ pausedAt # None
  /\ lastOp.now # timeline.lastRealTime
  /\ timeline.timeSeconds > 0

\* C12: the seed reported by getState() changes only at restart(): between
\* setSeed() and the next restart() it is still the previous seed.
SeedStagedUntilRestart ==
  [][lastOp'.name # "restart" =>
       getState(timeline').seed = getState(timeline).seed]_vars

AfterSteps(ts, k) == FixedSteps(ts, k * fixedTimeStep, 0).timeSeconds

\* C18: in update(), a fixed step that carries timeSeconds to or past
\* totalDuration leaves (previous + fixedTimeStep) - totalDuration, which is
\* less than fixedTimeStep; the timeline keeps playing and the remaining
\* steps of the call go on from the wrapped value.
LoopClosure ==
  [][(timeline.isPlaying /\ lastOp'.name = "update") =>
       LET a == timeline.accumulator + (lastOp'.now - timeline.lastRealTime)
           k == IF a >= fixedTimeStep THEN a \div fixedTimeStep ELSE 0
       IN  /\ \A i \in 1..k :
                LET prev == AfterSteps(timeline.timeSeconds, i - 1)
                    cur  == AfterSteps(timeline.timeSeconds, i)
                IN  IF prev + fixedTimeStep >= totalDuration
                    THEN /\ cur = prev + fixedTimeStep - totalDuration
                         /\ cur < fixedTimeStep
                    ELSE cur = prev + fixedTimeStep
           /\ timeline'.timeSeconds = AfterSteps(timeline.timeSeconds, k)
           /\ timeline'.accumulator = a - k * fixedTimeStep
           /\ timeline'.T = timeline'.timeSeconds
           /\ timeline'.isPlaying]_vars

\* C18 witness: one update() of more than CatchUpCap steps ended one step
\* after the wrap
WrappedInsideCatchUp ==
  /\ lastOp.name = "update"
  /\ startedAt # NoStart
  /\ iterations > CatchUpCap
  /\ timeline.lastRealTime - startedAt = totalDuration + fixedTimeStep
  /\ timeline.timeSeconds = fixedTimeStep
  /\ timeline.isPlaying

\* C19: in every reachable state T = min(1, timeSeconds / totalDuration).
TIsElapsedOverDuration ==
  timeline.T = Min(totalDuration, timeline.timeSeconds)

\* C19 witness: setSeed() on a timeline paused with T > 0
SeedSetWhilePausedMidRun ==
  /\ lastOp.name = "setSeed"
  /\ ~timeline.isPlaying
  /\ timeline.T > 0

\* C20: an update() of a playing timeline that does not wrap never lowers
\* T, whatever timestamp it is given.
TMonotoneWithoutWrap ==
  [][(timeline.isPlaying /\ lastOp'.name = "update"
        /\ timeline.timeSeconds
             + updateIterations(timeline, lastOp'.now) * fixedTimeStep
             < totalDuration)
     => timeline'.T >= timeline.T]_vars

\* C20 witness: an update() with an earlier timestamp on a timeline that
\* had advanced
RegressedUpdateKeptT ==
  /\ lastOp.name = "update"
  /\ timeline.isPlaying
  /\ timeline.accumulator < 0
  /\ timeline.T > 0

\* C13: once the seed has been changed and Play / Restart pressed, the
\* starfield, the environment and the overlay scene are the ones generated
\* from the current seed.
RestartAppliesSeed ==
  (lastOp.name = "restart") =>
    /\ page.starfield = page.currentSeed
    /\ page.environment = page.currentSeed
    /\ (babylonOverlay = "overlay" => page.overlay = page.currentSeed)

\* C16: whenever the shake controller is not active, the camera position and
\* rotation are their rest values, whatever trigger(), update(dt) and stop()
\* calls came before.
NoResidualOffset ==
  \A r \in Runs :
    (cameraShake[r].created /\ ~isActive(cameraShake[r])) =>
      /\ cameraShake[r].position = RestPosition
      /\ cameraShake[r].rotation = RestRotation

\* C14: two page loads with the same seed that receive the same calls are in
\* the same simulation state at every moment, camera-shake phase offsets
\* included.
SameSeedSameState ==
  cameraShake[1] = cameraShake[2]

\* C15: after any history of frames, the emitters are in the state that
\* freshly created systems are in after one updateParticleSystems call with
\* the same T: started or stopped, emit rates, gravity and emit power.
EmissionIsFunctionOfT ==
  particleT # NoT =>
    particleSystems = updateParticleSystems(createParticleSystems, particleT)

\* C21: getPhaseProgress() is in [0,1] in every reachable state of a
\* TimelineDriver, whatever timestamps restart() and update() were given.
PhaseProgressInUnitInterval ==
  LET p == getPhaseProgress(driver.t)
  IN  0 <= p[1] /\ p[1] <= p[2]

\* the phases whose [start, end) contains t
Containing(t) ==
  {i \in 1..Len(PHASES) :
     /\ ~TBelow(t, PHASES[i].start[1], PHASES[i].start[2])
     /\ TBelow(t, PHASES[i].end[1], PHASES[i].end[2])}

\* C22: the phase table is an ascending gap-free partition of [0,1], and
\* getCurrentPhase() returns the one phase whose [start, end) contains t, or
\* AFTERMATH when t = 1; stated for every t in [0,1] and for the driver's t.
PhasesPartitionUnitInterval ==
  /\ PHASES[1].start[1] = 0
  /\ PHASES[Len(PHASES)].end[1] = PHASES[Len(PHASES)].end[2]
  /\ \A i \in 1..Len(PHASES) :
       /\ PHASES[i].start[2] = PHASES[i].end[2]
       /\ PHASES[i].start[1] < PHASES[i].end[1]
  /\ \A i \in 1..(Len(PHASES) - 1) : PHASES[i].end = PHASES[i + 1].start
  /\ \A t \in 0..totalDuration :
       IF t = totalDuration
       THEN getCurrentPhase(t).key = "AFTERMATH"
       ELSE /\ Cardinality(Containing(t)) = 1
            /\ \A i \in Containing(t) : getCurrentPhase(t) = PHASES[i]
  /\ (0 <= driver.t /\ driver.t < totalDuration) =>
       \A i \in Containing(driver.t) : getCurrentPhase(driver.t) = PHASES[i]

\* C22 witness: a playing driver whose t is the start of the Impact phase
DriverAtImpactStart ==
  /\ driver.playing
  /\ driver.t * T_IMPACT[2] = T_IMPACT[1] * totalDuration
  /\ getCurrentPhase(driver.t).key = "IMPACT"

\* C23: two Timeline instances given the same restart, pause, resume and
\* update calls with the same timestamps agree on T, timeSeconds and
\* phaseName after every call, whatever their seeds.
SeedNeverInfluencesT ==
  /\ twin.T = timeline.T
  /\ twin.timeSeconds = timeline.timeSeconds
  /\ twin.phaseName = timeline.phaseName
  /\ twin.isPlaying = timeline.isPlaying
  /\ twin.accumulator = timeline.accumulator

\* C23 witness: instances with different seeds, both in the Aftermath phase
\* after an update
TwinsInAftermath ==
  /\ twin.seed # timeline.seed
  /\ lastOp.name = "update"
  /\ timeline.phaseName = "Aftermath"
  /\ twin.phaseName = "Aftermath"

\* C24: after restart(t0), N frames, any further calls, and restart(t0)
\* again, replaying the same timestamps yields the same T values as the
\* first time.
RestartReplaysTrajectory ==
  replay.stage = "second" =>
    replay.second = SubSeq(replay.first, 1, Len(replay.second))

\* C24 witness: a complete replay that began on a paused timeline with a
\* non-zero accumulator and ended at T > 0
ReplayedAfterPausedRun ==
  /\ replay.stage = "second"
  /\ Len(replay.second) = ReplayFrames
  /\ replay.left # None
  /\ ~replay.left.isPlaying
  /\ replay.left.accumulator # 0
  /\ replay.second[ReplayFrames] > 0

\* C25: after any number of next() calls the generator's state is an
\* unsigned word: 0 <= state < 2^WordBits.
RngStateIsUnsignedWord ==
  0 <= rng.state /\ rng.state < Modulus

\* C26: the values drawn since the last reset() or setSeed(s) are the values
\* a newly constructed generator with that seed gives, and straight after
\* reset() or setSeed(s) the generator equals the newly constructed one.
ResetRestoresSequence ==
  /\ rngLog.drawn = Outputs(SeededRNGNew(rng.seed), Len(rngLog.drawn))
  /\ rngLog.call = "reset" => rng = SeededRNGNew(rng.seed)
  /\ rngLog.call = "setSeed" => rng = SeededRNGNew(rngLog.value)

\* C26 witness: MaxDraws values drawn after a setSeed() with a seed outside
\* the word range
DrawnAfterOutOfRangeSeed ==
  /\ Len(rngLog.drawn) = MaxDraws
  /\ rng.seed = ToUint32(Modulus + 3)
  /\ rng.state # rng.seed

ClickToggles ==
  lastClick' # lastClick =>
    IF timeline.isPlaying
    THEN /\ lastClick' = "pause"
         /\ ~timeline'.isPlaying
         /\ timeline'.T = timeline.T
         /\ timeline'.timeSeconds = timeline.timeSeconds
    ELSE /\ lastClick' = "play"
         /\ timeline'.isPlaying
         /\ timeline'.T = 0
         /\ timeline'.timeSeconds = 0

\* C28: a click on Play / Restart pauses a playing timeline without
\* resetting T and restarts one that is not playing from T = 0; after any
\* clicks and frames isPlaying is what the last click selected.
PlayButtonToggles ==
  /\ [](lastClick # "none" =>
          /\ timeline.isPlaying = (lastClick = "play")
          /\ page.btnActive = timeline.isPlaying)
  /\ [][ClickToggles]_vars

\* C28 witness: a frame rendered after a click paused the timeline mid-run
FrameAfterPauseClick ==
  /\ lastClick = "pause"
  /\ lastOp.name = "update"
  /\ ~timeline.isPlaying
  /\ timeline.T > 0

\* C29: the seed a Timeline holds and reports through getState() is an
\* unsigned 32-bit integer, whatever seed it was given.
TimelineSeedIsUint32 ==
  /\ 0 <= getState(timeline).seed
  /\ getState(timeline).seed \div 65536 < 65536

\* the emissive colour does not decrease when T does not
HeatNonDecreasing ==
  (heatT # NoT /\ heatT' >= heatT) =>
    \A c \in {"r", "g", "b"} :
      material'.emissiveColor[c] >= material.emissiveColor[c]

\* C30: the heat curve is zero for every T below heatThreshold, is
\* non-decreasing in T on [0,1] and at T = 1 is exactly maxEmissive times the
\* heat colour.
HeatCurveShape ==
  /\ []((heatT # NoT /\ heatT < ASTEROID_CONFIG.heatThreshold) =>
          \A c \in {"r", "g", "b"} : material.emissiveColor[c] = 0)
  /\ [](heatT = 100 =>
          \A c \in {"r", "g", "b"} :
            material.emissiveColor[c] * 10 * 10 =
              ASTEROID_CONFIG.maxEmissive * ASTEROID_CONFIG.heatColor[c]
                * HeatDen)
  /\ [][HeatNonDecreasing]_vars

\* C30 witness: updateHeating at T = 1.0, red component 2.5
HeatedAtFullT ==
  /\ heatT = 100
  /\ material.emissiveColor.r * 10 = 25 * HeatDen

\* C35: phaseName is "Idle" exactly when the timeline is not playing.
IdleIffNotPlaying ==
  (timeline.phaseName = "Idle") <=> ~timeline.isPlaying

\* C36: for every T in [0,1] of a playing timeline, updatePhase() sets the
\* name of the phase that the scan of PHASES returns for that T; stated for
\* every T of the grid and for the timeline right after restart() or update().
ClassifiersAgree ==
  /\ \A T \in 0..totalDuration :
       updatePhase([TimelineNew(DEFAULT_SEED) EXCEPT
                      !.isPlaying = TRUE, !.T = T]).phaseName
         = getCurrentPhase(T).name
  /\ (timeline.isPlaying /\ lastOp.name \in {"restart", "update"}) =>
       timeline.phaseName = getCurrentPhase(timeline.T).name

\* C36 witness: an update() left the playing timeline in the Impact phase
UpdatedIntoImpact ==
  /\ timeline.isPlaying
  /\ lastOp.name = "update"
  /\ timeline.phaseName = "Impact"
  /\ getCurrentPhase(timeline.T).key = "IMPACT"

\* C38: the overlay is rendered only once its initialisation has resolved; a
\* rejected initialisation leaves babylonOverlay null; and whatever the state
\* of the overlay a frame can run, and runs timeline.update and the UI update.
OverlayNeverBlocksLoop ==
  /\ [](frame.ran => overlayInit = "resolved")
  /\ [](babylonOverlay = "overlay" <=> overlayInit = "resolved")
  /\ [](ENABLED animate)
  /\ [][(lastOp' # lastOp /\ lastOp'.name = "update") =>
          /\ timeline' = update(timeline, lastOp'.now)
          /\ page'.btnActive = timeline'.isPlaying
          /\ frame'.ran = (overlayInit = "resolved")]_vars

\* C38 witness: the initialisation was rejected and the timeline is playing
\* past its start, advanced by frames that rendered no overlay
LoopRunsAfterRejection ==
  /\ overlayInit = "rejected"
  /\ babylonOverlay = "null"
  /\ lastOp.name = "update"
  /\ timeline.isPlaying
  /\ timeline.T > 0
  /\ page.btnActive
  /\ ~frame.ran

\* C34: a loop of the playing timeline that the overlay watched from its
\* start has fired the impact effects exactly once when the timeline wraps
\* into the next loop.
EachLoopFiresOnce ==
  [][(/\ lastOp'.name = "update"
      /\ lastOp' # lastOp
      /\ Wrapped(timeline, lastOp'.now)
      /\ crossing.watched) => crossing.loop = 1]_vars

\* C37: lastUpdateTime is advanced by every frame that finds a timeline
\* state, playing or not, so the deltaTime a playing frame passes to the
\* entities runs from the last frame that found a state (or from
\* createScene): after a frame that saw the timeline paused it is the
\* interval since that frame only.
DeltaExcludesPausedTime ==
  /\ (frame.ran /\ frame.read # Undefined) =>
       metadata.lastUpdateTime = frame.now
  /\ (frame.ran /\ frame.deltaTime # NoDelta) =>
       /\ frame.read # Undefined
       /\ frame.read.isPlaying
       /\ frame.deltaTime = frame.now - frame.since.at

\* C37 witness: the first playing frame after a frame that saw the timeline
\* paused, later than it, passed a deltaTime to the entities
FirstPlayingFrameAfterPause ==
  /\ frame.ran
  /\ frame.deltaTime > 0
  /\ frame.since.frames
  /\ ~frame.since.playing
  /\ frame.since.at > 0
  /\ frame.since.last = frame.since.at

\* C31: whenever the ring turns active or visible, at least the delay of
\* update time has accumulated since the trigger() that armed it, for the
\* first trigger and for a trigger after an earlier shockwave has finished.
RingWaitsForDelay ==
  [][((shockwave'.active /\ ~shockwave.active)
        \/ (shockwave'.isVisible /\ ~shockwave.isVisible))
       => shockLog'.sinceTrigger >= ShockDelay]_vars

\* C32: the active mesh is the mesh of currentLOD, currentLOD is the level
\* of the phase seen by the last update(), and no other LOD mesh is visible.
LodFollowsPhase ==
  /\ asteroid.activeMesh = asteroid.currentLOD
  /\ asteroidT # NoT =>
       asteroid.currentLOD = desiredLOD(getCurrentPhase(asteroidT).key)
  /\ \A l \in Lods \ {asteroid.activeMesh} : ~asteroid.visible[l]

\* C33: after a call of updateDebrisSystem() every inactive particle has
\* the zero-scale instance matrix, and every active one has age < lifetime.
InactiveDebrisHidden ==
  debrisUpdated =>
    \A i \in DOMAIN debrisSystem :
      /\ ~debrisSystem[i].active => debrisSystem[i].matrix = "zero"
      /\ debrisSystem[i].active => debrisSystem[i].age < DebrisLifetime

====
